---- MODULE Spec2Model ----
(***************************************************************************)
(* A model of the curation and serving pipeline of                         *)
(* bsky_thread_and_blog_feed: the classifier of src/src/lib.rs, the        *)
(* SQLite store of src/src/db.rs, and the event handlers, the feed server  *)
(* and the eviction task of src/src/bin/feed.rs.                           *)
(*                                                                         *)
(* A text is modelled by the set of keywords that occur in it: the three   *)
(* regular expressions of lib.rs are word-alternations (\b(w1|w2|...)\b),  *)
(* so each matches a text iff one of its words occurs in it, and the       *)
(* profanity detector (rustrict) flags a text iff a profane word occurs.   *)
(* One word stands for each alternation.                                   *)
(***************************************************************************)
EXTENDS Integers, Sequences, FiniteSets, TLC

\* ---------------------------------------------------------------- bounds
\* Post URIs are 1..NumUris, like URIs 1..NumLikes, timestamps 1..MaxTime.
NumUris == 2
NumLikes == 2
MaxTime == 2
\* Longest fragment sequence handed to the classifier.
MaxFrags == 2
\* Largest page size requested from the feed server, and largest offset a
\* client sends as a cursor of its own making.
MaxLimit == 2
MaxCursor == 3
\* The feed server is checked on posts 1..NumFeed with timestamps 1..MaxFeedTime.
NumFeed == 3
MaxFeedTime == 3

\* The largest number of images of an embed.
MaxImages == 2

\* feed.rs:246 has MAX_POSTS = 10_000; the model scales it down so that
\* eviction happens with NumUris posts.
MAX_POSTS == 1

\* The largest usize (feed.rs:223) and the largest i64, the integer SQLite
\* stores and rusqlite converts a u64 parameter to (db.rs:31); scaled down
\* to one digit, in their order.
USIZE_MAX == 9
I64_MAX == 4

Uris == 1..NumUris
LikeUris == 1..NumLikes
Timestamps == 1..MaxTime

None == [tag |-> "None"]
Some(v) == [tag |-> "Some", value |-> v]

\* ------------------------------------------------------ texts (lib.rs)
Words == {"rust", "blog", "musk", "nsfw"}
Texts == SUBSET Words

\* rustrict's CensorStr::is_inappropriate (lib.rs:44)
is_inappropriate(s) == "nsfw" \in s
\* PROGRAMMER_JARGON.is_match (lib.rs:16-19)
PROGRAMMER_JARGON(s) == "rust" \in s
\* BLOG_JARGON.is_match (lib.rs:21-26)
BLOG_JARGON(s) == "blog" \in s
\* DO_NOT_POST.is_match (lib.rs:28-33)
DO_NOT_POST(s) == "musk" \in s

\* models.rs: enum TextInPost { Post, Picture, Video, External }
TextTags == {"Post", "Picture", "Video", "External"}
TextInPost == [tag : TextTags, value : Texts]
\* models.rs: TextInPost::to_string
to_string(text) == text.value

\* models.rs: struct PostScoring
PostScoring(p) == [pinned |-> FALSE, deleted |-> FALSE, priority |-> p]

\* A topic weight that does not depend on the kind of the fragment.
TopicWeightOfBody(tag) == 10

\* The weight added when the topic pattern matches a fragment (lib.rs:62,73,84,95)
TopicWeight(tag) ==
    CASE tag = "Post" -> 10
      [] tag = "Picture" -> 15
      [] tag = "Video" -> 15
      [] tag = "External" -> 15

\* The weight added when the form pattern matches a fragment (lib.rs:66,77,88,99)
FormWeight(tag) ==
    CASE tag = "Post" -> 30
      [] tag = "Picture" -> 30
      [] tag = "Video" -> 15
      [] tag = "External" -> 30

\* A classifier that accepts on the form signal alone.
AcceptsFormOnly(fits_topic, should_be_saved) == should_be_saved
\* lib.rs:108: the acceptance test at the end of the loop body
Accepts(fits_topic, should_be_saved) == fits_topic /\ should_be_saved

\* The for loop of does_the_post_belong_to_the_feed (lib.rs:42-115), from
\* fragment i on, with the values of the loop's mutable locals.
RECURSIVE scan(_, _, _, _, _)
scan(all_text, i, scoring, fits_topic, should_be_saved) ==
    IF i > Len(all_text) THEN None
    ELSE LET text == all_text[i]
             string_of_text == to_string(text)
         IN  IF is_inappropriate(string_of_text) THEN None
             ELSE IF DO_NOT_POST(string_of_text) THEN None
             ELSE LET topic == PROGRAMMER_JARGON(string_of_text)
                      form == BLOG_JARGON(string_of_text)
                      sc == scoring
                            + (IF topic THEN TopicWeight(text.tag) ELSE 0)
                            + (IF form THEN FormWeight(text.tag) ELSE 0)
                      ft == fits_topic \/ topic
                      sbs == should_be_saved \/ form
                  IN  IF Accepts(ft, sbs)
                      THEN Some(PostScoring(sc))
                      ELSE scan(all_text, i + 1, sc, ft, sbs)

\* A loop that scores a fragment and tests acceptance before its two gates.
RECURSIVE scan_score_first(_, _, _, _, _)
scan_score_first(all_text, i, scoring, fits_topic, should_be_saved) ==
    IF i > Len(all_text) THEN None
    ELSE LET text == all_text[i]
             string_of_text == to_string(text)
             topic == PROGRAMMER_JARGON(string_of_text)
             form == BLOG_JARGON(string_of_text)
             sc == scoring
                   + (IF topic THEN TopicWeight(text.tag) ELSE 0)
                   + (IF form THEN FormWeight(text.tag) ELSE 0)
             ft == fits_topic \/ topic
             sbs == should_be_saved \/ form
         IN  IF Accepts(ft, sbs) THEN Some(PostScoring(sc))
             ELSE IF is_inappropriate(string_of_text) THEN None
             ELSE IF DO_NOT_POST(string_of_text) THEN None
             ELSE scan_score_first(all_text, i + 1, sc, ft, sbs)

does_the_post_score_first(all_text_in_post) ==
    scan_score_first(all_text_in_post, 1, 0, FALSE, FALSE)

\* lib.rs:35-118
does_the_post_belong_to_the_feed(all_text_in_post) ==
    scan(all_text_in_post, 1, 0, FALSE, FALSE)

\* ------------------------------------------------------------- state
VARIABLES
    posts,            \* table posts: a set of rows (db.rs:78-85)
    likes,            \* table likes: a set of rows (db.rs:91-96)
    foreign_keys,     \* whether the SQLite build enforces foreign keys
    like_task,        \* a like_post handler of the feed owner between its two store calls
    cleanup_task,     \* the eviction task: waiting for its tick, or in cleanup_posts
    admin_task,       \* a db::delete_post between its two statements
    last,             \* the operation that completed last, and how
    serve,            \* a serve_feed call: its locals, then its response
    walk,             \* a client following the cursors from the first page on
    all_text_in_post, \* the classifier's argument
    save_post         \* the classifier's result

vars == <<posts, likes, foreign_keys, like_task, cleanup_task, admin_task, last,
          serve, walk, all_text_in_post, save_post>>

store == <<posts, likes, foreign_keys>>
classifier == <<all_text_in_post, save_post>>

Idle == [pc |-> "idle"]
\* The eviction task in cleanup_interval.tick().await (feed.rs:36)
Tick == [pc |-> "tick"]
\* A task that ended in the panic of an unwrap or an expect.
Panic == [pc |-> "panic"]

\* A write to table posts, seen from the readers: a serve_feed call between
\* its two reads has not read one state of the store; a response given
\* before the write and a walk over the pages are history.
Disturb ==
    /\ serve' = IF posts' = posts THEN serve
                ELSE IF serve.pc = "count" THEN [serve EXCEPT !.stable = FALSE]
                ELSE Idle
    /\ walk' = IF posts' # posts THEN Idle ELSE walk

\* ------------------------------------------------- events (skyfeed)
\* skyfeed::Embed, as far as insert_post reads it
NoEmbed == [kind |-> "None"]
VideoEmbed(alt) == [kind |-> "Video", alt_text |-> alt]
ExternalEmbed(t, d) == [kind |-> "External", title |-> t, description |-> d]
QuoteEmbed == [kind |-> "Quote"]
ImagesEmbed(alts) == [kind |-> "Images", images |-> alts]
QuoteWithMedia(media) == [kind |-> "QuoteWithMedia", media |-> media]

\* feed.rs:69-96: the fragments insert_post extracts from a post
Images(images) == [i \in 1..Len(images) |-> [tag |-> "Picture", value |-> images[i]]]
text_types(post) ==
    <<[tag |-> "Post", value |-> post.text]>> \o
    (CASE post.embed.kind = "None" -> <<>>
       [] post.embed.kind = "Video" ->
            <<[tag |-> "Video", value |-> post.embed.alt_text]>>
       [] post.embed.kind = "External" ->
            <<[tag |-> "External", value |-> post.embed.title],
              [tag |-> "External", value |-> post.embed.description]>>
       [] post.embed.kind = "Quote" -> <<>>
       [] post.embed.kind = "QuoteWithMedia" ->
            (CASE post.embed.media.kind = "Images" -> Images(post.embed.media.images)
               [] post.embed.media.kind = "Video" -> <<>>
               [] post.embed.media.kind = "External" -> <<>>)
       [] post.embed.kind = "Images" -> Images(post.embed.images))

\* The new-post events the store is driven with: a body that matches both
\* patterns, and a body that matches the topic only, each with and without a
\* video whose alt-text matches the form pattern.
PostEvents ==
    [uri : Uris,
     text : {{"rust", "blog"}, {"rust"}},
     embed : {NoEmbed, VideoEmbed({"blog"})},
     timestamp : Timestamps]

\* The new-post events of one kind, which the classifier accepts.
AcceptedPostEvents ==
    [uri : Uris, text : {{"rust", "blog"}}, embed : {NoEmbed}, timestamp : Timestamps]

\* Accepted new-post events that differ in their uri only.
FaultPostEvents ==
    [uri : Uris, text : {{"rust", "blog"}}, embed : {NoEmbed}, timestamp : {1}]

\* The alt-texts, titles and descriptions of the embeds: one that matches the
\* topic pattern and one that matches the form pattern.
AltTexts == {{"rust"}, {"blog"}}
ImageLists == UNION {[1..k -> AltTexts] : k \in 0..MaxImages}

\* skyfeed::MediaEmbed, the media attached to a quoted post
MediaEmbeds ==
    {ImagesEmbed(images) : images \in ImageLists}
    \cup {VideoEmbed(alt) : alt \in AltTexts}
    \cup {ExternalEmbed(t, d) : t \in AltTexts, d \in AltTexts}

\* Option<skyfeed::Embed>: every variant insert_post matches on
Embeds ==
    {NoEmbed, QuoteEmbed}
    \cup MediaEmbeds
    \cup {QuoteWithMedia(media) : media \in MediaEmbeds}

\* The new-post events of one uri with every kind of embed.
EmbedPostEvents ==
    [uri : {1}, text : {{"rust"}, {"rust", "blog"}}, embed : Embeds, timestamp : {1}]

\* ------------------------------------------------------ SQL (db.rs)
\* A row stored with deleted = 1.
RowMarkedDeleted(uri, text, priority, timestamp) ==
    [uri |-> uri, text |-> text, pinned |-> FALSE, deleted |-> TRUE,
     priority |-> priority, timestamp |-> timestamp]

\* VALUES (?1, ?2, 0, 0, ?3, ?4) (feed.rs:105, feed.rs:170)
Row(uri, text, priority, timestamp) ==
    [uri |-> uri, text |-> text, pinned |-> FALSE, deleted |-> FALSE,
     priority |-> priority, timestamp |-> timestamp]

Like(post_uri, like_uri) == [post_uri |-> post_uri, like_uri |-> like_uri]

HasPost(P, uri) == \E r \in P : r.uri = uri

\* FOREIGN KEY (post_uri) REFERENCES posts(uri) ON DELETE CASCADE (db.rs:95):
\* the likes left when the posts of the uris `removed` are deleted.
Cascade(L, removed, fk) ==
    IF fk THEN {l \in L : l.post_uri \notin removed} ELSE L

\* A plain INSERT into a table without the primary key.
InsertPlain(P, L, fk, row) == [posts |-> P \cup {row}, likes |-> L]

\* INSERT OR REPLACE INTO posts (feed.rs:105, feed.rs:170): uri is the
\* primary key, REPLACE deletes the conflicting row (with the foreign-key
\* action of that delete) and inserts the new one.
InsertOrReplace(P, L, fk, row) ==
    LET conflicting == {r \in P : r.uri = row.uri}
    IN  [posts |-> (P \ conflicting) \cup {row},
         likes |-> Cascade(L, {r.uri : r \in conflicting}, fk)]

\* DELETE FROM posts WHERE ... : `doomed` are the rows the WHERE selects.
DeleteFromPosts(P, L, fk, doomed) ==
    [posts |-> P \ doomed,
     likes |-> Cascade(L, {r.uri : r \in doomed}, fk),
     changed |-> Cardinality(doomed)]

\* An ascending ORDER BY: oldest first.
BeforeOldestFirst(r, q) ==
    \/ r.timestamp < q.timestamp
    \/ r.timestamp = q.timestamp /\ r.uri <= q.uri

\* The order of ORDER BY timestamp DESC; rows of equal timestamp come in
\* the order of the primary key.
Before(r, q) ==
    \/ r.timestamp > q.timestamp
    \/ r.timestamp = q.timestamp /\ r.uri <= q.uri

\* The rows in the order of the primary key, with no ORDER BY.
RECURSIVE OrderByUri(_)
OrderByUri(rows) ==
    IF rows = {} THEN <<>>
    ELSE LET first == CHOOSE r \in rows : \A q \in rows : r.uri <= q.uri
         IN  <<first>> \o OrderByUri(rows \ {first})

RECURSIVE OrderByTimestampDesc(_)
OrderByTimestampDesc(rows) ==
    IF rows = {} THEN <<>>
    ELSE LET first == CHOOSE r \in rows : \A q \in rows : Before(r, q)
         IN  <<first>> \o OrderByTimestampDesc(rows \ {first})

\* OFFSET o without a LIMIT
OffsetOnly(seq, n, o) == SubSeq(seq, o + 1, Len(seq))

\* LIMIT n OFFSET o
LimitOffset(seq, n, o) ==
    SubSeq(seq, o + 1, IF o + n < Len(seq) THEN o + n ELSE Len(seq))

Range(seq) == {seq[i] : i \in 1..Len(seq)}

\* The insert into likes without its WHERE EXISTS.
InsertLikeUnguarded(P, L, post_uri, like_uri) ==
    IF Like(post_uri, like_uri) \in L
    THEN [ok |-> FALSE, likes |-> L, changed |-> 0]
    ELSE [ok |-> TRUE, likes |-> L \cup {Like(post_uri, like_uri)}, changed |-> 1]

\* INSERT INTO likes (post_uri, like_uri) SELECT ?1, ?2 WHERE EXISTS
\* (SELECT 1 FROM posts WHERE uri = ?1) (feed.rs:189-191); the pair is the
\* primary key of likes (db.rs:94), so a second row for it is a constraint
\* error, and the statement fails.
InsertLike(P, L, post_uri, like_uri) ==
    IF ~HasPost(P, post_uri)
    THEN [ok |-> TRUE, likes |-> L, changed |-> 0]
    ELSE IF Like(post_uri, like_uri) \in L
    THEN [ok |-> FALSE, likes |-> L, changed |-> 0]
    ELSE [ok |-> TRUE, likes |-> L \cup {Like(post_uri, like_uri)}, changed |-> 1]

\* --------------------------------------------- handlers (feed.rs)
\* An insert_post that stores every post, a rejected one with priority 0.
insert_post_ungated(post) ==
    LET scoring == does_the_post_belong_to_the_feed(text_types(post))
        row == Row(post.uri, post.text,
                   IF scoring = None THEN 0 ELSE scoring.value.priority, post.timestamp)
        db == InsertOrReplace(posts, likes, foreign_keys, row)
    IN  /\ posts' = db.posts
        /\ likes' = db.likes
        /\ Disturb
        /\ UNCHANGED <<foreign_keys, like_task, admin_task, classifier>>

\* The store call of insert_post (feed.rs:98-109)
insert_post_call(post) ==
    LET scoring == does_the_post_belong_to_the_feed(text_types(post))
        row == Row(post.uri, post.text, scoring.value.priority, post.timestamp)
        db == InsertOrReplace(posts, likes, foreign_keys, row)
    IN  /\ IF scoring = None
           THEN UNCHANGED <<posts, likes>>
           ELSE /\ posts' = db.posts
                /\ likes' = db.likes
        /\ Disturb
        /\ UNCHANGED <<foreign_keys, like_task, admin_task>>

\* MyFeedHandler::insert_post (feed.rs:67-111)
insert_post(post) ==
    /\ insert_post_call(post)
    /\ UNCHANGED classifier

\* MyFeedHandler::insert_post with its locals text_types and save_post
\* (feed.rs:69, feed.rs:98)
insert_post_locals(post) ==
    /\ insert_post_call(post)
    /\ all_text_in_post' = text_types(post)
    /\ save_post' = does_the_post_belong_to_the_feed(text_types(post))

\* MyFeedHandler::delete_post (feed.rs:113-121)
delete_post(uri) ==
    LET db == DeleteFromPosts(posts, likes, foreign_keys, {r \in posts : r.uri = uri})
    IN  /\ posts' = db.posts
        /\ likes' = db.likes
        /\ Disturb
        /\ UNCHANGED <<foreign_keys, like_task, admin_task, classifier>>

\* MyFeedHandler::like_post (feed.rs:123-198) when the liker is not the feed
\* owner: the condition of feed.rs:124 is false, the insert of
\* feed.rs:186-197 is all it does.
like_post(like_uri, liked_post_uri) ==
    /\ likes' = InsertLike(posts, likes, liked_post_uri, like_uri).likes
    /\ UNCHANGED <<posts, foreign_keys, like_task, admin_task, serve, walk, classifier>>

\* What get_posts answers (feed.rs:128-139): an error, or the posts found
\* for the liked uri with the text of their records.
GetPostsResults(liked_post_uri) ==
    {[ok |-> FALSE, posts |-> <<>>], [ok |-> TRUE, posts |-> <<>>]}
    \cup {[ok |-> TRUE, posts |-> <<[uri |-> liked_post_uri, text |-> t]>>] :
            t \in {{"rust", "blog"}, {"rust"}}}

\* MyFeedHandler::like_post when the liker is the feed owner, up to the
\* store call of feed.rs:167-175: the lookup of the liked post, its
\* classification and its upsert with the current time.
like_post_owner(like_uri, liked_post_uri, get_posts_call, timestamp) ==
    /\ like_task = Idle
    /\ like_task' = [pc |-> "insert", post_uri |-> liked_post_uri, like_uri |-> like_uri]
    /\ IF get_posts_call.ok /\ get_posts_call.posts # <<>>
       THEN LET post == get_posts_call.posts[1]
                scoring == does_the_post_belong_to_the_feed(
                               <<[tag |-> "Post", value |-> post.text]>>)
                row == Row(post.uri, post.text, scoring.value.priority, timestamp)
                db == InsertOrReplace(posts, likes, foreign_keys, row)
            IN  IF scoring = None
                THEN UNCHANGED <<posts, likes>>
                ELSE /\ posts' = db.posts
                     /\ likes' = db.likes
       ELSE UNCHANGED <<posts, likes>>
    /\ Disturb
    /\ UNCHANGED <<foreign_keys, admin_task, classifier>>

\* ... and its last statement (feed.rs:186-197)
like_post_owner_insert ==
    /\ like_task # Idle
    /\ likes' = InsertLike(posts, likes, like_task.post_uri, like_task.like_uri).likes
    /\ like_task' = Idle
    /\ UNCHANGED <<posts, foreign_keys, admin_task, serve, walk, classifier>>

\* A delete that compares the like uri with the column post_uri.
delete_like_by_post_uri(like_uri) ==
    /\ likes' = {l \in likes : l.post_uri # like_uri}
    /\ UNCHANGED <<posts, foreign_keys, like_task, admin_task, serve, walk, classifier>>

\* MyFeedHandler::delete_like (feed.rs:200-210)
delete_like(like_uri) ==
    /\ likes' = {l \in likes : l.like_uri # like_uri}
    /\ UNCHANGED <<posts, foreign_keys, like_task, admin_task, serve, walk, classifier>>

\* The rows the statement of cleanup_posts selects (feed.rs:252-258):
\* those not among the first MAX_POSTS by timestamp, newest first.
Evicted(P) ==
    LET keep == Range(LimitOffset(OrderByTimestampDesc(P), MAX_POSTS, 0))
    IN  {r \in P : r.uri \notin {k.uri : k \in keep}}

\* cleanup_posts (feed.rs:245-274), run by the task of feed.rs:33-39
cleanup_posts ==
    LET db == DeleteFromPosts(posts, likes, foreign_keys, Evicted(posts))
    IN  /\ posts' = db.posts
        /\ likes' = db.likes
        /\ Disturb
        /\ UNCHANGED <<foreign_keys, like_task, admin_task, classifier>>

\* db::delete_post (db.rs:61-72), called by the admin tool: its first
\* statement, DELETE FROM likes WHERE post_uri = ?1 ...
db_delete_post_likes(uri) ==
    /\ admin_task = Idle
    /\ admin_task' = [pc |-> "posts", uri |-> uri,
                      removed |-> Cardinality({l \in likes : l.post_uri = uri})]
    /\ likes' = {l \in likes : l.post_uri # uri}
    /\ UNCHANGED <<posts, foreign_keys, like_task, serve, walk, classifier>>

\* ... and its second, DELETE FROM posts WHERE uri = ?1
db_delete_post_posts ==
    LET db == DeleteFromPosts(posts, likes, foreign_keys,
                              {r \in posts : r.uri = admin_task.uri})
    IN  /\ admin_task # Idle
        /\ admin_task' = Idle
        /\ posts' = db.posts
        /\ likes' = db.likes
        /\ Disturb
        /\ UNCHANGED <<foreign_keys, like_task, classifier>>

\* ----------------------------------------------------- the store
\* What the operation that completed last did: its name, whether it
\* returned or panicked on an unwrap, the number of rows its last statement
\* changed, and whether the row it names was stored before it.
Done(op, outcome, changed, existed) ==
    [op |-> op, outcome |-> outcome, changed |-> changed, existed |-> existed]

\* The tables as initialize_db creates them (db.rs:74-109), under either
\* setting of SQLite's foreign-key enforcement: the code sets no pragma, so
\* the library's compile-time default decides.
Init ==
    /\ posts = {}
    /\ likes = {}
    /\ foreign_keys \in BOOLEAN
    /\ like_task = Idle
    /\ cleanup_task = Tick
    /\ admin_task = Idle
    /\ last = Done("initialize_db", "ok", 0, FALSE)
    /\ serve = Idle
    /\ walk = Idle
    /\ all_text_in_post = <<>>
    /\ save_post = None

InsertPost(post) ==
    /\ insert_post(post)
    /\ UNCHANGED cleanup_task
    /\ last' = Done("insert_post", "ok",
                    IF does_the_post_belong_to_the_feed(text_types(post)) = None
                    THEN 0 ELSE 1,
                    HasPost(posts, post.uri))

DeletePost(uri) ==
    /\ delete_post(uri)
    /\ UNCHANGED cleanup_task
    /\ last' = Done("delete_post", "ok", Cardinality({r \in posts : r.uri = uri}),
                    HasPost(posts, uri))

\* The unwrap of feed.rs:197 panics when the insert into likes failed.
LikeResult(post_uri, like_uri) ==
    LET db == InsertLike(posts, likes, post_uri, like_uri)
    IN  Done("like_post", IF db.ok THEN "ok" ELSE "panic", db.changed,
             Like(post_uri, like_uri) \in likes)

LikePost(like_uri, liked_post_uri) ==
    /\ like_post(like_uri, liked_post_uri)
    /\ UNCHANGED cleanup_task
    /\ last' = LikeResult(liked_post_uri, like_uri)

LikePostOwner(like_uri, liked_post_uri, get_posts_call, timestamp) ==
    /\ like_post_owner(like_uri, liked_post_uri, get_posts_call, timestamp)
    /\ UNCHANGED cleanup_task
    /\ last' = Done("like_post_owner", "ok", Cardinality(posts' \ posts),
                    HasPost(posts, liked_post_uri))

LikePostOwnerInsert ==
    /\ like_post_owner_insert
    /\ UNCHANGED cleanup_task
    /\ last' = LikeResult(like_task.post_uri, like_task.like_uri)

DeleteLike(like_uri) ==
    /\ delete_like(like_uri)
    /\ UNCHANGED cleanup_task
    /\ last' = Done("delete_like", "ok",
                    Cardinality({l \in likes : l.like_uri = like_uri}),
                    \E l \in likes : l.like_uri = like_uri)

CleanupPosts ==
    /\ cleanup_posts
    /\ UNCHANGED cleanup_task
    /\ last' = Done("cleanup_posts", "ok", Cardinality(Evicted(posts)),
                    Cardinality(posts) > MAX_POSTS)

AdminDeleteLikes(uri) ==
    /\ db_delete_post_likes(uri)
    /\ UNCHANGED <<last, cleanup_task>>

AdminDeletePost ==
    /\ db_delete_post_posts
    /\ UNCHANGED cleanup_task
    /\ last' = Done("db_delete_post", "ok",
                    Cardinality({r \in posts : r.uri = admin_task.uri}),
                    HasPost(posts, admin_task.uri))

\* The handlers that write table posts alone.
NextPosts ==
    \/ \E post \in PostEvents : InsertPost(post)
    \/ \E uri \in Uris : DeletePost(uri)
    \/ CleanupPosts

SpecPosts == Init /\ [][NextPosts]_vars

\* The handlers of the like events, on posts that differ in their uri only.
NextLikes ==
    \/ \E post \in FaultPostEvents : InsertPost(post)
    \/ \E uri \in Uris : DeletePost(uri)
    \/ \E like_uri \in LikeUris, uri \in Uris : LikePost(like_uri, uri)
    \/ \E uri \in Uris :
          \E result \in GetPostsResults(uri) : LikePostOwner(1, uri, result, 1)
    \/ LikePostOwnerInsert
    \/ \E like_uri \in LikeUris : DeleteLike(like_uri)

SpecLikes == Init /\ [][NextLikes]_vars

\* The handlers of the post events, on posts the classifier accepts and
\* posts it rejects, with a like in the store.
\* insert_post on posts with every kind of embed, its locals observed.
InsertPostLocals(post) ==
    /\ insert_post_locals(post)
    /\ UNCHANGED cleanup_task
    /\ last' = Done("insert_post", "ok",
                    IF does_the_post_belong_to_the_feed(text_types(post)) = None
                    THEN 0 ELSE 1,
                    HasPost(posts, post.uri))

NextExtract == \E post \in EmbedPostEvents : InsertPostLocals(post)

SpecExtract == Init /\ [][NextExtract]_vars

NextIngest ==
    \/ \E post \in PostEvents : InsertPost(post)
    \/ \E uri \in Uris : DeletePost(uri)
    \/ LikePost(1, 1)

SpecIngest == Init /\ [][NextIngest]_vars

\* Every writer of table posts: the handlers of the post events, the
\* upsert of a like of the feed owner, and the eviction task.
NextWriters ==
    \/ NextPosts
    \/ \E now \in Timestamps :
          \E result \in GetPostsResults(1) : LikePostOwner(1, 1, result, now)
    \/ LikePostOwnerInsert

SpecWriters == Init /\ [][NextWriters]_vars

\* The feed service: the event handlers and the eviction task.
Next ==
    \/ \E post \in PostEvents : InsertPost(post)
    \/ \E uri \in Uris : DeletePost(uri)
    \/ \E like_uri \in LikeUris, uri \in Uris : LikePost(like_uri, uri)
    \/ \E like_uri \in LikeUris, uri \in Uris, now \in Timestamps :
          \E result \in GetPostsResults(uri) : LikePostOwner(like_uri, uri, result, now)
    \/ LikePostOwnerInsert
    \/ \E like_uri \in LikeUris : DeleteLike(like_uri)
    \/ CleanupPosts

Spec == Init /\ [][Next]_vars

\* The feed service, and the admin tool deleting posts from the same database.
NextAdmin ==
    \/ Next
    \/ \E uri \in Uris : AdminDeleteLikes(uri)
    \/ AdminDeletePost

SpecAdmin == Init /\ [][NextAdmin]_vars

\* ------------------------------------------------ storage errors
\* A statement that SQLite fails (the database is locked by the other
\* process, the disk is full, an I/O error) changes no table; `outcome` is
\* what the caller makes of the Err: "panic" for an unwrap or an expect,
\* "dropped" for a result that is thrown away, "logged" for a log line.
StorageError(op, outcome) ==
    /\ last' = Done(op, outcome, 0, FALSE)
    /\ UNCHANGED <<store, like_task, cleanup_task, admin_task, serve, walk, classifier>>

\* insert_post: `let _ = self.db.call(..).await` (feed.rs:103-108)
InsertPostError(post) ==
    /\ does_the_post_belong_to_the_feed(text_types(post)) # None
    /\ StorageError("insert_post", "dropped")

\* delete_post: `.await.unwrap()` (feed.rs:119-120)
DeletePostError(uri) == StorageError("delete_post", "panic")

\* like_post, the insert into likes: `.await.unwrap()` (feed.rs:196-197)
LikePostError(like_uri, liked_post_uri) == StorageError("like_post", "panic")

\* like_post of the feed owner, the upsert of the liked post:
\* `.await.unwrap()` (feed.rs:174-175); the handler ends there.
LikePostOwnerError(like_uri, liked_post_uri, get_posts_call) ==
    /\ like_task = Idle
    /\ get_posts_call.ok /\ get_posts_call.posts # <<>>
    /\ does_the_post_belong_to_the_feed(
           <<[tag |-> "Post", value |-> get_posts_call.posts[1].text]>>) # None
    /\ StorageError("like_post_owner", "panic")

\* delete_like: `.await.unwrap()` (feed.rs:208-209)
DeleteLikeError(like_uri) == StorageError("delete_like", "panic")

\* serve_feed: `.await.unwrap()` of load_feed_from_db (db.rs:44-45) and
\* `.expect(..)` of get_posts_count (db.rs:56-57)
ServeFeedError == StorageError("serve_feed", "panic")

\* cleanup_posts: the Err arm of feed.rs:270-272
CleanupPostsError == StorageError("cleanup_posts", "logged")

\* db::delete_post, first statement: `.unwrap()` in the closure (db.rs:64-65)
DbDeletePostLikesError(uri) ==
    /\ admin_task = Idle
    /\ StorageError("db_delete_post", "panic")

\* db::delete_post, second statement: `.expect(..)` (db.rs:67-71), after
\* the first statement has been committed
DbDeletePostPostsError ==
    /\ admin_task # Idle
    /\ admin_task' = Idle
    /\ last' = Done("db_delete_post", "panic", 0, HasPost(posts, admin_task.uri))
    /\ UNCHANGED <<store, like_task, cleanup_task, serve, walk, classifier>>

\* The feed service and the admin tool on a store whose statements can
\* fail: each handler with one statement, and db::delete_post with two.
NextFaults ==
    \/ \E post \in FaultPostEvents : InsertPost(post)
    \/ \E like_uri \in LikeUris, uri \in Uris : LikePost(like_uri, uri)
    \/ \E uri \in Uris : AdminDeleteLikes(uri)
    \/ AdminDeletePost
    \/ \E post \in FaultPostEvents : InsertPostError(post)
    \/ \E uri \in Uris : DeletePostError(uri)
    \/ \E like_uri \in LikeUris, uri \in Uris : LikePostError(like_uri, uri)
    \/ \E like_uri \in LikeUris, uri \in Uris :
          \E result \in GetPostsResults(uri) : LikePostOwnerError(like_uri, uri, result)
    \/ \E like_uri \in LikeUris : DeleteLikeError(like_uri)
    \/ ServeFeedError
    \/ CleanupPostsError
    \/ \E uri \in Uris : DbDeletePostLikesError(uri)
    \/ DbDeletePostPostsError

SpecFaults == Init /\ [][NextFaults]_vars

\* ----------------------------------------------- the eviction task
\* A loop that ends when cleanup_posts has failed.
AfterCleanupUntilError(outcome) == IF outcome = "ok" THEN Tick ELSE [pc |-> "stopped"]

\* feed.rs:35-38: cleanup_posts returns () whatever it logged, and the loop
\* goes back to the tick.
AfterCleanup(outcome) == Tick

\* cleanup_interval.tick().await returns (feed.rs:36)
CleanupTick ==
    /\ cleanup_task.pc = "tick"
    /\ cleanup_task' = [pc |-> "cleanup"]
    /\ UNCHANGED <<store, like_task, admin_task, last, serve, walk, classifier>>

\* cleanup_posts(&db).await, the statement has run (feed.rs:37, feed.rs:267-269)
CleanupRun ==
    /\ cleanup_task.pc = "cleanup"
    /\ cleanup_posts
    /\ cleanup_task' = AfterCleanup("ok")
    /\ last' = Done("cleanup_posts", "ok", Cardinality(Evicted(posts)),
                    Cardinality(posts) > MAX_POSTS)

\* cleanup_posts(&db).await, the statement has failed (feed.rs:37, feed.rs:270-272)
CleanupRunError ==
    /\ cleanup_task.pc = "cleanup"
    /\ cleanup_task' = AfterCleanup("logged")
    /\ last' = Done("cleanup_posts", "logged", 0, Cardinality(posts) > MAX_POSTS)
    /\ UNCHANGED <<store, like_task, admin_task, serve, walk, classifier>>

\* The tasks of main (feed.rs:33-46): the handlers of the event stream, with
\* a like of the feed owner that waits between its calls as long as it
\* likes, and the eviction task on its interval.
NextLive ==
    \/ \E post \in FaultPostEvents : InsertPost(post)
    \/ \E uri \in Uris : DeletePost(uri)
    \/ \E result \in GetPostsResults(1) : LikePostOwner(1, 1, result, 1)
    \/ LikePostOwnerInsert
    \/ CleanupTick
    \/ CleanupRun
    \/ CleanupRunError

\* The runtime polls the spawned eviction task whatever the other tasks do:
\* the interval fires, and the store answers the statement or fails it.
SpecLive ==
    /\ Init
    /\ [][NextLive]_vars
    /\ WF_vars(CleanupTick)
    /\ WF_vars(CleanupRun \/ CleanupRunError)

\* ------------------------------------------------- the classifier
Fragments(n) == UNION {[1..k -> TextInPost] : k \in 0..n}

InitClassify ==
    /\ posts = {}
    /\ likes = {}
    /\ foreign_keys = FALSE
    /\ like_task = Idle
    /\ cleanup_task = Tick
    /\ admin_task = Idle
    /\ last = Done("initialize_db", "ok", 0, FALSE)
    /\ serve = Idle
    /\ walk = Idle
    /\ all_text_in_post \in Fragments(MaxFrags)
    /\ save_post = [tag |-> "pending"]

Classify ==
    /\ save_post = [tag |-> "pending"]
    /\ save_post' = does_the_post_belong_to_the_feed(all_text_in_post)
    /\ UNCHANGED <<posts, likes, foreign_keys, like_task, cleanup_task, admin_task, last,
                   serve, walk, all_text_in_post>>

NextClassify == Classify

SpecClassify == InitClassify /\ [][NextClassify]_vars

\* ------------------------------------------------ the feed server
\* A cursor is a string: a sequence of characters.
Digits == <<"0", "1", "2", "3", "4", "5", "6", "7", "8", "9">>
IsDigit(c) == \E d \in 1..10 : Digits[d] = c
DigitValue(c) == (CHOOSE d \in 1..10 : Digits[d] = c) - 1

\* u64::to_string (feed.rs:233): the decimal digits, most significant first
RECURSIVE u64_to_string(_)
u64_to_string(n) ==
    IF n < 10 THEN <<Digits[n + 1]>>
    ELSE u64_to_string(n \div 10) \o <<Digits[(n % 10) + 1]>>

RECURSIVE DecimalValue(_)
DecimalValue(s) ==
    IF s = <<>> THEN 0
    ELSE 10 * DecimalValue(SubSeq(s, 1, Len(s) - 1)) + DigitValue(s[Len(s)])

\* A parser that reads the leading digits and ignores the rest.
parse_leading_digits(c) ==
    LET stop == IF \E i \in 1..Len(c) : ~IsDigit(c[i])
                THEN CHOOSE i \in 1..Len(c) :
                        ~IsDigit(c[i]) /\ \A j \in 1..(i - 1) : IsDigit(c[j])
                ELSE Len(c) + 1
    IN  IF stop = 1 THEN None ELSE Some(DecimalValue(SubSeq(c, 1, stop - 1)))

\* str::parse::<usize> (feed.rs:223): an optional "+", then one or more
\* decimal digits, and nothing else; a number above usize::MAX is an error.
parse_usize(c) ==
    LET digits == IF c # <<>> /\ c[1] = "+" THEN Tail(c) ELSE c
    IN  IF /\ digits # <<>>
           /\ \A i \in 1..Len(digits) : IsDigit(digits[i])
           /\ DecimalValue(digits) <= USIZE_MAX
        THEN Some(DecimalValue(digits))
        ELSE None

\* feed.rs:220-224
start_index_of(cursor) ==
    IF cursor = None THEN 0
    ELSE LET parsed == parse_usize(cursor.value)
         IN  IF parsed = None THEN 0 ELSE parsed.value

\* feed.rs:215-218
posts_per_page_of(limit) == IF limit = None THEN 0 ELSE limit.value

\* rusqlite's ToSql for u64, which binds the parameters of db.rs:31: the
\* value as an i64, or an error when it does not fit.
ToSql(n) == IF n <= I64_MAX THEN Some(n) ELSE None

\* db::load_feed_from_db (db.rs:7-46); uri is the primary key, so each
\* group of the GROUP BY is one row.
load_feed_from_db(P, limit, offset) ==
    LimitOffset(OrderByTimestampDesc({r \in P : r.deleted = FALSE}), limit, offset)

\* db::get_posts_count (db.rs:48-59)
get_posts_count(P) == Cardinality(P)

\* A cursor test that stops one row early.
next_cursor_early(start_index, posts_per_page, total_posts) ==
    IF start_index + posts_per_page + 1 < total_posts
    THEN Some(u64_to_string(start_index + posts_per_page))
    ELSE None

\* A cursor test that is not strict.
next_cursor_inclusive(start_index, posts_per_page, total_posts) ==
    IF start_index + posts_per_page <= total_posts
    THEN Some(u64_to_string(start_index + posts_per_page))
    ELSE None

\* feed.rs:232-236
next_cursor_of(start_index, posts_per_page, total_posts) ==
    IF start_index + posts_per_page < total_posts
    THEN Some(u64_to_string(start_index + posts_per_page))
    ELSE None

\* The requests of the clients: any accepted limit or none, and no cursor,
\* a cursor a server returned, or a string of the client's own.
Limits == {None} \cup {Some(n) : n \in 1..MaxLimit}
Cursors ==
    {None} \cup {Some(u64_to_string(n)) : n \in 0..MaxCursor}
           \cup {Some(<<"1", "x">>), Some(<<"-", "1">>), Some(<<"+", "1">>),
                 Some(u64_to_string(I64_MAX + 1))}

\* skyfeed::Request, as far as serve_feed reads it (feed.rs:215, feed.rs:220)
Request(limit, cursor) == [limit |-> limit, cursor |-> cursor]

\* The client is walking the feed when it asks with no cursor and then
\* sends the cursor of the previous response with the same limit.
WalkRequest(limit, cursor) ==
    IF cursor = None
    THEN [pc |-> "walking", limit |-> limit, pages |-> <<>>]
    ELSE IF /\ walk.pc = "walking"
            /\ serve.pc = "done"
            /\ cursor = serve.cursor
            /\ limit = walk.limit
    THEN walk
    ELSE Idle

WalkResponse(w, feed, next_cursor) ==
    IF w.pc = "walking"
    THEN [pc |-> IF next_cursor = None THEN "finished" ELSE "walking",
          limit |-> w.limit,
          pages |-> w.pages \o feed]
    ELSE w

Uri(post_uris) == [i \in 1..Len(post_uris) |-> post_uris[i].uri]

\* MyFeedHandler::serve_feed (feed.rs:212-242) with no write to the store
\* between its two reads.
serve_feed(limit, cursor) ==
    LET posts_per_page == posts_per_page_of(limit)
        start_index == start_index_of(cursor)
        post_uris == load_feed_from_db(posts, posts_per_page, start_index)
        total_posts == get_posts_count(posts)
        next_cursor == next_cursor_of(start_index, posts_per_page, total_posts)
    IN  /\ serve.pc \in {"idle", "done", "panic"}
        /\ IF ToSql(posts_per_page) = None \/ ToSql(start_index) = None
           THEN /\ serve' = [pc |-> "panic", request |-> Request(limit, cursor)]
                /\ walk' = Idle
           ELSE /\ serve' = [pc |-> "done",
                             request |-> Request(limit, cursor),
                             posts_per_page |-> posts_per_page,
                             start_index |-> start_index,
                             feed |-> Uri(post_uris),
                             stable |-> TRUE,
                             total_posts |-> total_posts,
                             cursor |-> next_cursor]
                /\ walk' = WalkResponse(WalkRequest(limit, cursor), Uri(post_uris),
                                        next_cursor)
        /\ UNCHANGED <<store, like_task, cleanup_task, admin_task, last, classifier>>

\* MyFeedHandler::serve_feed up to its first read (feed.rs:212-228) ...
serve_feed_load(limit, cursor) ==
    LET posts_per_page == posts_per_page_of(limit)
        start_index == start_index_of(cursor)
        post_uris == load_feed_from_db(posts, posts_per_page, start_index)
    IN  /\ serve.pc \in {"idle", "done", "panic"}
        /\ IF ToSql(posts_per_page) = None \/ ToSql(start_index) = None
           THEN /\ serve' = [pc |-> "panic", request |-> Request(limit, cursor)]
                /\ walk' = Idle
           ELSE /\ serve' = [pc |-> "count",
                             request |-> Request(limit, cursor),
                             posts_per_page |-> posts_per_page,
                             start_index |-> start_index,
                             feed |-> Uri(post_uris),
                             stable |-> TRUE]
                /\ walk' = WalkRequest(limit, cursor)
        /\ UNCHANGED <<store, like_task, cleanup_task, admin_task, last, classifier>>

\* ... and from its second read to its response (feed.rs:231-242)
serve_feed_count ==
    LET total_posts == get_posts_count(posts)
        next_cursor == next_cursor_of(serve.start_index, serve.posts_per_page, total_posts)
    IN  /\ serve.pc = "count"
        /\ serve' = [pc |-> "done",
                     request |-> serve.request,
                     posts_per_page |-> serve.posts_per_page,
                     start_index |-> serve.start_index,
                     feed |-> serve.feed,
                     stable |-> serve.stable,
                     total_posts |-> total_posts,
                     cursor |-> next_cursor]
        /\ walk' = WalkResponse(walk, serve.feed, next_cursor)
        /\ UNCHANGED <<store, like_task, cleanup_task, admin_task, last, classifier>>

\* The posts the feed server is checked on: accepted posts of one kind.
FeedPostEvents ==
    [uri : 1..NumFeed, text : {{"rust", "blog"}}, embed : {NoEmbed},
     timestamp : 1..MaxFeedTime]

\* The writes to table posts while the feed is served.
FeedWrite ==
    /\ \/ \E post \in FeedPostEvents : insert_post(post)
       \/ \E uri \in 1..NumFeed : delete_post(uri)
       \/ cleanup_posts
    /\ UNCHANGED <<last, cleanup_task>>

\* The feed server answering one request at a time, each from one state
\* of the store.
NextServe ==
    \/ FeedWrite
    \/ \E limit \in Limits, cursor \in Cursors : serve_feed(limit, cursor)

SpecServe == Init /\ [][NextServe]_vars

\* The writes of the handlers and of the eviction task while a request is
\* served: inserts, deletes, a like and its removal, eviction.
RaceWrite ==
    /\ \/ \E post \in AcceptedPostEvents : insert_post(post)
       \/ \E uri \in Uris : delete_post(uri)
       \/ like_post(1, 1)
       \/ delete_like(1)
       \/ cleanup_posts
    /\ UNCHANGED <<last, cleanup_task>>

\* The feed server with writes between the two reads of a request.
NextRace ==
    \/ RaceWrite
    \/ \E limit \in Limits, cursor \in Cursors : serve_feed_load(limit, cursor)
    \/ serve_feed_count

SpecRace == Init /\ [][NextRace]_vars

\* ===================================================== properties
NonDeleted == {r \in posts : r.deleted = FALSE}
TimestampOf(uri) == (CHOOSE r \in posts : r.uri = uri).timestamp
Min(a, b) == IF a < b THEN a ELSE b

\* C1. Pagination walk: a walk with a limit of at least 1 over an unchanged
\* store, from no cursor to the first response without a cursor, returns
\* every non-deleted post uri exactly once, newest first.
C1_PaginationWalk ==
    (walk.pc = "finished" /\ walk.limit # None) =>
        /\ Range(walk.pages) = {r.uri : r \in NonDeleted}
        /\ \A i, j \in 1..Len(walk.pages) : i # j => walk.pages[i] # walk.pages[j]
        /\ \A i, j \in 1..Len(walk.pages) :
              i < j => TimestampOf(walk.pages[i]) >= TimestampOf(walk.pages[j])

\* A finished walk of two calls over three posts.
C1_Witness ==
    /\ walk.pc = "finished"
    /\ walk.limit = Some(2)
    /\ Len(walk.pages) = 3

\* The posts A@100, B@200, C@300 of the example: uris 1, 2, 3 with the
\* timestamps 1, 2, 3.
ExampleStore ==
    /\ {r.uri : r \in posts} = {1, 2, 3}
    /\ \A r \in posts : r.timestamp = r.uri

\* C2. A serve_feed call with offset o on an unchanged store that returns n
\* items has a cursor iff o + n is less than the number of non-deleted
\* posts, and the cursor is then o + n in decimal; on the example store
\* serve(2, none) = ([C, B], "2") and serve(2, "2") = ([A], none).
C2_CursorRule ==
    (serve.pc = "done" /\ serve.stable) =>
        LET o == serve.start_index
            n == Len(serve.feed)
        IN  /\ serve.cursor # None <=> o + n < Cardinality(NonDeleted)
            /\ serve.cursor # None =>
                  /\ serve.cursor.value = u64_to_string(o + n)
                  /\ parse_usize(serve.cursor.value) = Some(o + n)
            /\ (ExampleStore /\ serve.posts_per_page = 2 /\ o = 0) =>
                  serve.feed = <<3, 2>> /\ serve.cursor = Some(<<"2">>)
            /\ (ExampleStore /\ serve.posts_per_page = 2 /\ o = 2) =>
                  serve.feed = <<1>> /\ serve.cursor = None

\* The second call of the example has answered.
C2_Witness ==
    /\ serve.pc = "done"
    /\ serve.stable
    /\ ExampleStore
    /\ serve.posts_per_page = 2
    /\ serve.start_index = 2
    /\ serve.feed = <<1>>

Classified == save_post # [tag |-> "pending"]
Unsafe(text) == is_inappropriate(to_string(text))
Denied(text) == DO_NOT_POST(to_string(text))

\* A string that is no decimal number, with or without a "+" before it.
Garbage(c) ==
    \/ c = <<>>
    \/ \E i \in 1..Len(c) : ~IsDigit(c[i]) /\ ~(i = 1 /\ c[i] = "+" /\ Len(c) > 1)

\* The response to a request from the store P.
FeedResultOf(P, limit, cursor) ==
    LET posts_per_page == posts_per_page_of(limit)
        start_index == start_index_of(cursor)
    IN  [feed |-> Uri(load_feed_from_db(P, posts_per_page, start_index)),
         cursor |-> next_cursor_of(start_index, posts_per_page, get_posts_count(P))]

\* Strings that are no number: empty, a word, digits with a letter before,
\* between or after, a negative number, a sign alone, a fraction, blanks.
MalformedCursors ==
    {<<>>, <<"x">>, <<"x", "1">>, <<"1", "x">>, <<"1", "x", "1">>, <<"-", "1">>,
     <<"-", "0">>, <<"+">>, <<"-">>, <<"1", ".", "0">>, <<" ", "1">>, <<"1", " ">>,
     <<"+", "+", "1">>, <<"1", "+">>}

\* C11. Cursor robustness: a serve_feed call whose cursor is not a number
\* does not fail, and answers with the items and the next cursor of the
\* same request without a cursor.
C11_CursorRobustness ==
    /\ \A c \in MalformedCursors :
          Garbage(c) /\ start_index_of(Some(c)) = start_index_of(None)
    /\ serve.pc = "panic" =>
          serve.request.cursor # None /\ ~Garbage(serve.request.cursor.value)
    /\ (serve.pc = "done" /\ serve.stable /\ serve.request.cursor = None) =>
          /\ serve.start_index = 0
          /\ [feed |-> serve.feed, cursor |-> serve.cursor]
                = FeedResultOf(posts, serve.request.limit, None)
    /\ (/\ serve.pc = "done" /\ serve.stable
        /\ serve.request.cursor # None
        /\ Garbage(serve.request.cursor.value)) =>
          [feed |-> serve.feed, cursor |-> serve.cursor]
             = FeedResultOf(posts, serve.request.limit, None)

\* A request with the cursor "1x" has been answered with the first page
\* of two and the cursor to the second.
C11_Witness ==
    /\ serve.pc = "done"
    /\ serve.request.cursor = Some(<<"1", "x">>)
    /\ Len(serve.feed) = 2
    /\ serve.cursor = Some(<<"2">>)

\* C3. Safety precedence: a fragment sequence with an unsafe fragment at any
\* position is rejected.
C3_SafetyPrecedence ==
    (Classified /\ \E i \in 1..Len(all_text_in_post) : Unsafe(all_text_in_post[i]))
        => save_post = None

\* Some prefix without an unsafe or denylisted fragment holds a topic match
\* and a form match.
BothSignals(all_text) ==
    \E k \in 1..Len(all_text) :
        /\ \A i \in 1..k : ~Unsafe(all_text[i]) /\ ~Denied(all_text[i])
        /\ \E i \in 1..k : PROGRAMMER_JARGON(to_string(all_text[i]))
        /\ \E i \in 1..k : BLOG_JARGON(to_string(all_text[i]))

\* C4. Acceptance requires both signals: the classifier returns Some iff a
\* clean prefix of the fragments holds a topic match and a form match, in
\* the same fragment or in two; topic only, form only and the empty
\* sequence give None.
C4_BothSignals ==
    Classified =>
        /\ save_post.tag = "Some" <=> BothSignals(all_text_in_post)
        /\ (\A i \in 1..Len(all_text_in_post) :
               ~BLOG_JARGON(to_string(all_text_in_post[i]))) => save_post = None
        /\ (\A i \in 1..Len(all_text_in_post) :
               ~PROGRAMMER_JARGON(to_string(all_text_in_post[i]))) => save_post = None

\* Accepted on a topic match of the first fragment and a form match of the second.
C4_Witness ==
    /\ Classified
    /\ save_post.tag = "Some"
    /\ Len(all_text_in_post) = 2
    /\ to_string(all_text_in_post[1]) = {"rust"}
    /\ to_string(all_text_in_post[2]) = {"blog"}

\* The weights of the priority, by the kind of the fragment.
TopicWeights == [Post |-> 10, Picture |-> 15, Video |-> 15, External |-> 15]
FormWeights == [Post |-> 30, Picture |-> 30, Video |-> 15, External |-> 30]

\* The first fragment up to which both patterns have matched.
AcceptingFragment(all_text) ==
    CHOOSE k \in 1..Len(all_text) :
        /\ \E i \in 1..k : PROGRAMMER_JARGON(to_string(all_text[i]))
        /\ \E i \in 1..k : BLOG_JARGON(to_string(all_text[i]))
        /\ \A j \in 1..(k - 1) :
              \/ \A i \in 1..j : ~PROGRAMMER_JARGON(to_string(all_text[i]))
              \/ \A i \in 1..j : ~BLOG_JARGON(to_string(all_text[i]))

RECURSIVE WeightsUpTo(_, _)
WeightsUpTo(all_text, k) ==
    IF k = 0 THEN 0
    ELSE WeightsUpTo(all_text, k - 1)
         + (IF PROGRAMMER_JARGON(to_string(all_text[k]))
            THEN TopicWeights[all_text[k].tag] ELSE 0)
         + (IF BLOG_JARGON(to_string(all_text[k]))
            THEN FormWeights[all_text[k].tag] ELSE 0)

\* C12. Priority computation: a Some of the classifier has pinned = false,
\* deleted = false and as priority the sum of the topic and form weights of
\* the fragments up to the accepting one; the priority is not negative,
\* and it is 40 for a single safe body fragment that matches both patterns.
C12_Priority ==
    (Classified /\ save_post.tag = "Some") =>
        /\ save_post.value.pinned = FALSE
        /\ save_post.value.deleted = FALSE
        /\ save_post.value.priority
              = WeightsUpTo(all_text_in_post, AcceptingFragment(all_text_in_post))
        /\ save_post.value.priority >= 0
        /\ (/\ Len(all_text_in_post) = 1
            /\ all_text_in_post[1].tag = "Post"
            /\ PROGRAMMER_JARGON(to_string(all_text_in_post[1]))
            /\ BLOG_JARGON(to_string(all_text_in_post[1])))
               => save_post.value.priority = 40

\* Accepted at the second fragment, a video that matches the form pattern,
\* after an image that matches the topic pattern: priority 15 + 15.
C12_Witness ==
    /\ Classified
    /\ save_post.tag = "Some"
    /\ Len(all_text_in_post) = 2
    /\ all_text_in_post[1] = [tag |-> "Picture", value |-> {"rust"}]
    /\ all_text_in_post[2] = [tag |-> "Video", value |-> {"blog"}]
    /\ save_post.value.priority = 30

\* A statement of one of the four handlers fails.
HandlerStorageError ==
    \/ \E uri \in Uris : DeletePostError(uri)
    \/ \E like_uri \in LikeUris, uri \in Uris : LikePostError(like_uri, uri)
    \/ \E like_uri \in LikeUris, uri \in Uris :
          \E result \in GetPostsResults(uri) : LikePostOwnerError(like_uri, uri, result)
    \/ \E like_uri \in LikeUris : DeleteLikeError(like_uri)
    \/ ServeFeedError

\* C13. No storage error is fatal: a store operation that fails in
\* delete_post, like_post, delete_like or serve_feed ends that operation
\* with an error, and the handler does not panic.
C13_NoFatalStorageError ==
    [][HandlerStorageError => last'.outcome # "panic"]_vars

\* C14. Per-operation atomicity: a db::delete_post that has removed the
\* likes of a uri does not end, with or without a storage error, with the
\* post of that uri still stored.
C14_Atomicity ==
    [][(admin_task # Idle /\ admin_task' = Idle) =>
          ~(admin_task.removed > 0 /\ HasPost(posts', admin_task.uri))]_vars

\* C15. count() is the number of non-deleted posts: in every state of the
\* store get_posts_count returns the number of rows with deleted = false,
\* which is the number of rows load_feed_from_db enumerates.
C15_CountNonDeleted ==
    /\ get_posts_count(posts) = Cardinality({r \in posts : r.deleted = FALSE})
    /\ get_posts_count(posts)
          = Len(load_feed_from_db(posts, Cardinality(posts), 0))

\* Two posts are stored, the last of them by the upsert of a like of the
\* feed owner.
C15_Witness ==
    /\ get_posts_count(posts) = 2
    /\ last.op = "like_post_owner"
    /\ last.changed = 1

\* C16. Page size bound: a response holds at most min(limit, the largest
\* limit of the protocol) items, and none when the request has no limit.
C16_PageSize ==
    serve.pc = "done" =>
        /\ serve.request.limit # None =>
              Len(serve.feed) <= Min(serve.request.limit.value, MaxLimit)
        /\ serve.request.limit = None => serve.feed = <<>>

\* A full page of two of the three stored posts.
C16_Witness ==
    /\ serve.pc = "done"
    /\ serve.request.limit = Some(2)
    /\ Len(serve.feed) = 2
    /\ Cardinality(posts) = 3

\* The items are distinct posts of the store P, newest first.
IsSnapshotOf(feed, P) ==
    /\ \A i, j \in 1..Len(feed) : i # j => feed[i] # feed[j]
    /\ \A i \in 1..Len(feed) : \E r \in P : r.uri = feed[i] /\ r.deleted = FALSE
    /\ \A i, j \in 1..Len(feed) :
          i < j => \A r, q \in P :
                     (r.uri = feed[i] /\ q.uri = feed[j]) => r.timestamp >= q.timestamp

\* C17. Per-call snapshot consistency: whatever the handlers and the
\* eviction task write while a request is served, the items of its response
\* are those read from the store in one state of it: distinct posts of that
\* state, not deleted, newest first.
C17_Snapshot ==
    [][/\ (serve.pc # "count" /\ serve'.pc = "count") =>
             IsSnapshotOf(serve'.feed, posts) /\ posts' = posts
       /\ (serve.pc = "count" /\ serve'.pc \in {"count", "done"}) =>
             serve'.feed = serve.feed
       /\ (serve' # serve /\ serve'.pc = "done") => serve.pc = "count"]_vars

\* A request has been answered with the two posts it read, after one of
\* them was deleted and its timestamp changed by a new insert.
C17_Witness ==
    /\ serve.pc = "done"
    /\ ~serve.stable
    /\ serve.feed = <<1, 2>>
    /\ \E r, q \in posts : r.uri = 1 /\ q.uri = 2 /\ r.timestamp < q.timestamp

TooManyPosts == Cardinality(posts) > MAX_POSTS
CleanupFailed == last.op = "cleanup_posts" /\ last.outcome = "logged"

\* C18. Eviction keeps running: the eviction task runs cleanup_posts again
\* and again, whatever the handlers do and however its earlier runs ended;
\* and when the store stops failing, more than MAX_POSTS posts are followed
\* by at most MAX_POSTS posts.
C18_EvictionLive ==
    /\ []<>(cleanup_task.pc = "cleanup")
    /\ []<>(last.op = "cleanup_posts")
    /\ (<>[]~CleanupFailed) => (TooManyPosts ~> ~TooManyPosts)

\* A run of cleanup_posts has failed with more than MAX_POSTS posts stored,
\* while a like of the feed owner is between its calls.
C18_Witness ==
    /\ CleanupFailed
    /\ TooManyPosts
    /\ like_task # Idle
    /\ cleanup_task = Tick

\* C19. remove_like: an unlike event removes exactly the like rows with its
\* like uri, leaves the other like rows and table posts as they are, and
\* completes without an error, also when there is no such row.
C19_RemoveLike ==
    [][last'.op = "delete_like" =>
          \A like_uri \in LikeUris :
             DeleteLike(like_uri) =>
                /\ likes' = {l \in likes : l.like_uri # like_uri}
                /\ likes \ likes' = {l \in likes : l.like_uri = like_uri}
                /\ posts' = posts
                /\ last'.outcome = "ok"
                /\ (\A l \in likes : l.like_uri # like_uri) => likes' = likes]_vars

\* An unlike event has removed the two rows of its like uri, and a like
\* with another uri is still stored.
C19_Witness ==
    /\ last.op = "delete_like"
    /\ last.changed = 2
    /\ likes # {}

\* C20. Ingestion gate: a new-post event writes to the store iff the
\* classifier accepts the fragments extracted from the post; it then
\* upserts exactly the row of the post's uri, text and timestamp with the
\* classifier's priority and pinned = deleted = false, and otherwise leaves
\* posts and likes unchanged.
C20_IngestionGate ==
    [][last'.op = "insert_post" =>
          \A post \in PostEvents :
             (last'.existed = HasPost(posts, post.uri) /\ InsertPost(post)) =>
                LET fragments == text_types(post)
                    accepted == BothSignals(fragments)
                    row == [uri |-> post.uri, text |-> post.text, pinned |-> FALSE,
                            deleted |-> FALSE,
                            priority |-> WeightsUpTo(fragments,
                                                     AcceptingFragment(fragments)),
                            timestamp |-> post.timestamp]
                IN  /\ accepted <=> last'.changed = 1
                    /\ accepted =>
                          /\ posts' = {r \in posts : r.uri # post.uri} \cup {row}
                          /\ row \notin posts => posts' # posts
                    /\ ~accepted => posts' = posts /\ likes' = likes]_vars

\* A new-post event that the classifier rejects has left a store with a
\* post and a like as it was.
C20_Witness ==
    /\ last.op = "insert_post"
    /\ last.changed = 0
    /\ posts # {}
    /\ likes # {}

\* C5. Eviction bound: a run of cleanup_posts leaves at most MAX_POSTS
\* posts, namely min(count, MAX_POSTS) posts of the store before it, none of
\* them older than a post it removed, whatever their priority and pinned
\* values; it removes nothing when the count is at most MAX_POSTS.
C5_EvictionBound ==
    [][(last'.op = "cleanup_posts" /\ CleanupPosts) =>
          /\ Cardinality(posts') <= MAX_POSTS
          /\ posts' \subseteq posts
          /\ Cardinality(posts') = Min(Cardinality(posts), MAX_POSTS)
          /\ \A kept \in posts', evicted \in posts \ posts' :
                kept.timestamp >= evicted.timestamp
          /\ Cardinality(posts) <= MAX_POSTS => posts' = posts]_vars

\* An eviction has removed a post.
C5_Witness ==
    /\ last.op = "cleanup_posts"
    /\ last.changed > 0
    /\ Cardinality(posts) = MAX_POSTS

\* C6. Cascade integrity: whenever an operation removes a post, no like of
\* that post remains.
C6_CascadeIntegrity ==
    [][\A uri \in Uris :
          (HasPost(posts, uri) /\ ~HasPost(posts', uri))
              => \A l \in likes' : l.post_uri # uri]_vars

\* C7. Referential integrity: every like is a like of a stored post.
C7_ReferentialIntegrity == \A l \in likes : HasPost(posts, l.post_uri)

\* The insert into likes of a like_post handler is the step taken.
LikeInsertOf(like_uri, post_uri) ==
    \/ LikePost(like_uri, post_uri)
    \/ /\ like_task # Idle
       /\ like_task.like_uri = like_uri /\ like_task.post_uri = post_uri
       /\ LikePostOwnerInsert

\* C8. Like referential guard: the insert of a like whose post is not stored
\* changes neither table and is not an error.
C8_LikeGuard ==
    [][\A like_uri \in LikeUris, uri \in Uris :
          (~HasPost(posts, uri) /\ LikeInsertOf(like_uri, uri))
              => /\ likes' = likes
                 /\ posts' = posts
                 /\ last'.outcome = "ok"]_vars

\* A like of a post that is not stored has been dropped.
C8_Witness ==
    /\ last.op = "like_post"
    /\ last.outcome = "ok"
    /\ last.changed = 0
    /\ likes # {}

\* C9. add_like is idempotent: a like event for a pair already in likes
\* completes and changes neither table.
C9_LikeIdempotent ==
    [][\A like_uri \in LikeUris, uri \in Uris :
          (Like(uri, like_uri) \in likes /\ LikePost(like_uri, uri))
              => /\ last'.outcome = "ok"
                 /\ likes' = likes
                 /\ posts' = posts]_vars

\* The row an accepted new-post event stores: its uri, text and timestamp,
\* the classifier's priority, and pinned = deleted = false.
RowOfEvent ==
    [post \in PostEvents |->
        LET scoring == does_the_post_belong_to_the_feed(text_types(post))
        IN  IF scoring = None THEN None
            ELSE Some([uri |-> post.uri, text |-> post.text, pinned |-> FALSE,
                       deleted |-> FALSE, priority |-> scoring.value.priority,
                       timestamp |-> post.timestamp])]

\* C10. Upsert: posts holds at most one row per uri; an accepted insert of
\* a post leaves exactly one row of its uri, with the text, the priority and
\* the timestamp of that insert and pinned = deleted = false, and the other
\* rows as they were; inserting a record that is already the stored row
\* changes nothing.
C10_Upsert ==
    [][/\ \A r, q \in posts' : r.uri = q.uri => r = q
       /\ last'.op = "insert_post" =>
             \A post \in PostEvents :
                (RowOfEvent[post] # None /\ InsertPost(post))
                   => /\ {r \in posts' : r.uri = post.uri} = {RowOfEvent[post].value}
                      /\ {r \in posts' : r.uri # post.uri}
                            = {r \in posts : r.uri # post.uri}
                      /\ RowOfEvent[post].value \in posts => posts' = posts]_vars

\* An accepted insert has replaced a stored post.
C10_Witness ==
    /\ last.op = "insert_post"
    /\ last.changed = 1
    /\ last.existed

\* The fragments after the body text, for the embeds the post carries
\* itself and for the images attached to a quoted post.
EmbedFragments(post, fragments) ==
    LET embed == post.embed
        rest == Tail(fragments)
        Pictures(images) ==
            /\ Len(rest) = Len(images)
            /\ \A i \in 1..Len(images) :
                  rest[i] = [tag |-> "Picture", value |-> images[i]]
    IN  /\ embed.kind = "None" => rest = <<>>
        /\ embed.kind = "Video" =>
              rest = <<[tag |-> "Video", value |-> embed.alt_text]>>
        /\ embed.kind = "External" =>
              rest = <<[tag |-> "External", value |-> embed.title],
                       [tag |-> "External", value |-> embed.description]>>
        /\ embed.kind = "Images" => Pictures(embed.images)
        /\ (embed.kind = "QuoteWithMedia" /\ embed.media.kind = "Images") =>
              Pictures(embed.media.images)
        /\ embed.kind = "Quote" => rest = <<>>

\* The alt-text of a video attached to a quoted post is among the fragments.
QuotedVideoFragment(post, fragments) ==
    (post.embed.kind = "QuoteWithMedia" /\ post.embed.media.kind = "Video") =>
        \E i \in 2..Len(fragments) :
            fragments[i] = [tag |-> "Video", value |-> post.embed.media.alt_text]

\* C21. Text extraction: the fragments insert_post builds start with the
\* body text tagged Post; then a video embed gives one Video fragment, an
\* external-link embed two External fragments (title, description), images,
\* standalone or attached to a quoted post, one Picture fragment each in
\* order, a quote without media nothing; and the video attached to a quoted
\* post gives its alt-text too.
C21_TextExtraction ==
    [][\A post \in EmbedPostEvents :
          InsertPostLocals(post) =>
              /\ Len(all_text_in_post') >= 1
              /\ all_text_in_post'[1] = [tag |-> "Post", value |-> post.text]
              /\ EmbedFragments(post, all_text_in_post')
              /\ QuotedVideoFragment(post, all_text_in_post')]_vars

\* The part of C21 about the embeds of the post itself and about attached images.
DirectTextExtraction ==
    [][\A post \in EmbedPostEvents :
          InsertPostLocals(post) =>
              /\ Len(all_text_in_post') >= 1
              /\ all_text_in_post'[1] = [tag |-> "Post", value |-> post.text]
              /\ EmbedFragments(post, all_text_in_post')]_vars

\* The scan reaches fragment k: no fragment before it is stopped by a gate,
\* and the fragments before it do not hold both a topic and a form match.
Reached(all_text, k) ==
    /\ \A i \in 1..(k - 1) : ~Unsafe(all_text[i]) /\ ~Denied(all_text[i])
    /\ \/ \A i \in 1..(k - 1) : ~PROGRAMMER_JARGON(to_string(all_text[i]))
       \/ \A i \in 1..(k - 1) : ~BLOG_JARGON(to_string(all_text[i]))

\* C22. Gate order within the scan: a fragment the scan reaches that is
\* unsafe or matches the denylist pattern makes the result None, also when
\* that fragment, alone or with the fragments before it, matches both the
\* topic and the form pattern.
C22_GateOrder ==
    Classified =>
        \A k \in 1..Len(all_text_in_post) :
            (/\ Reached(all_text_in_post, k)
             /\ Unsafe(all_text_in_post[k]) \/ Denied(all_text_in_post[k]))
                => save_post = None

\* Rejected on a second fragment that matches the denylist and the form
\* pattern, after a first fragment that matches the topic pattern.
C22_Witness ==
    /\ Classified
    /\ save_post = None
    /\ Len(all_text_in_post) = 2
    /\ to_string(all_text_in_post[1]) = {"rust"}
    /\ to_string(all_text_in_post[2]) = {"blog", "musk"}

\* The response to a request of a walk carries a cursor that encodes an
\* offset greater than the offset of the request.
CursorAdvances ==
    /\ parse_usize(serve.cursor.value) # None
    /\ parse_usize(serve.cursor.value).value > serve.start_index

\* C23. Pagination walk terminates: on an unchanged store, for every limit
\* the handler accepts, an absent limit included, every cursor returned to a
\* request of a walk encodes an offset strictly greater than the offset of
\* that request, so the walk reaches a response without a cursor.
C23_WalkTerminates ==
    (serve.pc = "done" /\ serve.stable /\ walk.pc = "walking") => CursorAdvances

\* The part of C23 about the requests with a limit of at least 1.
WalkAdvancesWithLimit ==
    (serve.pc = "done" /\ serve.stable /\ walk.pc = "walking" /\ walk.limit # None)
        => CursorAdvances

\* The response carries a full page and the cursor that follows it.
CursorAgreesWithPage ==
    /\ Len(serve.feed) = posts_per_page_of(serve.request.limit)
    /\ serve.cursor.value = u64_to_string(serve.start_index + Len(serve.feed))

\* C24. Cursor agrees with the page under concurrency: whatever is written
\* to the store between the two reads of serve_feed, a response that carries
\* a cursor contains exactly limit items, and its cursor is the offset of
\* the request plus the number of items returned.
C24_CursorAgrees ==
    (serve.pc = "done" /\ serve.cursor # None) => CursorAgreesWithPage

\* The same for the requests with no write between their two reads.
CursorAgreesWhenStable ==
    (serve.pc = "done" /\ serve.stable /\ serve.cursor # None) => CursorAgreesWithPage

\* The step is an upsert of a post whose uri is stored: a repeated new-post
\* event, or the re-ingestion of a post the feed owner liked.
UpsertOfStoredPost ==
    \/ \E post \in FaultPostEvents : HasPost(posts, post.uri) /\ InsertPost(post)
    \/ \E uri \in Uris :
          /\ HasPost(posts, uri)
          /\ \E result \in GetPostsResults(uri) :
                /\ result.ok
                /\ result.posts # <<>>
                /\ LikePostOwner(1, uri, result, 1)

\* C25. Upsert preserves likes: re-inserting a post whose uri is stored, by
\* a repeated new-post event or by the re-ingestion of a post the feed owner
\* liked, leaves table likes unchanged.
C25_UpsertPreservesLikes ==
    [][UpsertOfStoredPost => likes' = likes]_vars

\* The same where SQLite does not enforce the foreign key of table likes.
UpsertPreservesLikesUnenforced ==
    [][(UpsertOfStoredPost /\ ~foreign_keys) => likes' = likes]_vars
====
